---- MODULE Spec2Model ----
(***************************************************************************)
(* Model of the catalog client of fetchbot (src/sources/tmdb.py):          *)
(* the request routine with its retry loop, the connection handle, and     *)
(* the three logical operations search, get_movie and get_tv_show with     *)
(* the response-to-record normalisation they perform.                      *)
(***************************************************************************)
EXTENDS Integers, Sequences, FiniteSets, TLC

VARIABLES
    upstreamPath,  \* the relative image path the upstream catalog serves
    client,        \* self._client: "none", "open" or "closed"
    call,          \* the logical operation in progress
    arg,           \* its argument: media_type (search) or include_episodes
    pc,            \* position inside _request
    attempt,       \* loop variable of _request
    sent,          \* HTTP requests sent by the current _request call
    trace,         \* outcome of each attempt of the current _request call
    waits,         \* seconds slept after each attempt
    error,         \* exception leaving _request
    endpoint,      \* endpoint of the current _request call
    requested,     \* endpoints passed to _request by the current operation
    body,          \* JSON body last handed to the caller
    seasons,       \* get_tv_show: parsed season summaries
    idx,           \* get_tv_show: position of the season loop (0: no detail yet)
    episodes,      \* get_tv_show: episodes gathered so far
    ret,           \* value returned / exception raised by the operation
    exporter,      \* the exporter whose export() has run ("none": not yet)
    exportData,    \* the argument of export(): one record or a list
    exportConfig,  \* the ExportConfig the exporter was built with
    prepared,      \* prepare_data() of each exported record, in order
    output,        \* what export() returned or raised
    handler,       \* the API route or dashboard section being served
    hpc,           \* its position: "idle", "entered", "called", "loop", "ended"
    pending,       \* outcome of the handler's client call: "ok" or "raise"
    outcome,       \* how the handler ended: "returned" or "raised"
    authenticated, \* the caller is a logged-in user (valid bearer token)
    queries,       \* batch: the titles to resolve
    qidx,          \* batch: position of the loop over queries
    attempted,     \* batch: the titles passed to client.search, in order
    fetched,       \* batch: titles in results (dashboard) / in the ZIP (API)
    failed,        \* batch: titles in failed (dashboard) / skipped (API)
    created,       \* connections the client instance has created so far
    live,          \* connections of the instance that are open
    second,        \* the instance that exported a second time, or "none"
    previous,      \* the output of the export before the latest
    authorization, \* API: the Authorization header of the request
    rawInput,      \* the lines typed or uploaded, as the user wrote them
    inputMethod,   \* dashboard batch: "Text" or "File"
    users,         \* the account store: users.json as load_users reads it
    signup         \* the latest create_user call and how it ended

vars == <<upstreamPath, client, call, arg, pc, attempt, sent, trace, waits,
          error, endpoint, requested, body, seasons, idx, episodes, ret,
          exporter, exportData, exportConfig, prepared, output,
          handler, hpc, pending, outcome, authenticated, queries, qidx,
          attempted, fetched, failed, created, live, second, previous,
          authorization, rawInput, inputMethod, users, signup>>

connVars == <<created, live>>

batchVars == <<queries, qidx, attempted, fetched, failed>>

inputVars == <<authorization, rawInput, inputMethod>>

authVars == <<users, signup>>

appVars == <<handler, hpc, pending, outcome, authenticated, batchVars,
            inputVars>>

exportVars == <<exporter, exportData, exportConfig, prepared, output,
               second, previous>>

clientVars == <<upstreamPath, client, call, arg, pc, attempt, sent, trace,
                waits, error, endpoint, requested, body, seasons, idx,
                episodes, ret, created, live>>

reqVars == <<pc, attempt, sent, trace, waits, error, endpoint>>

tvVars == <<seasons, idx, episodes>>

-----------------------------------------------------------------------------
(* Bounds of the upstream payloads *)

\* longest upstream search page
MaxRaw == 22

\* period of the kinds / jobs along an upstream list
PatLen == 2

\* longest upstream cast list
MaxCastRaw == 17

\* longest upstream crew list
MaxCrewRaw == 12

\* most season summaries of a show
MaxSeasons == 2

\* largest season number
MaxSeasonNo == 2

\* most episodes of a season
MaxEps == 2

-----------------------------------------------------------------------------
(* Values *)

\* Python None (absent or null field)
None == "None"

\* key not present in a JSON object
Missing == "Missing"

Paths == {None, "", "/a.jpg"}

\* trace entry of an attempt that got no HTTP response (httpx.RequestError)
RequestError == 0

Statuses == {200, 429, 404, 500}

IMAGE_BASE_URL == "https://image.tmdb.org/t/p"

NoError == [type |-> "none", status |-> 0]

NoBody == [empty |-> TRUE]

NoRet == [kind |-> "none"]

RECURSIVE SumSeq(_)
SumSeq(s) == IF s = <<>> THEN 0 ELSE s[1] + SumSeq(Tail(s))

Take(s, n) == SubSeq(s, 1, IF Len(s) < n THEN Len(s) ELSE n)

Get(v, default) == IF v = Missing THEN default ELSE v

\* Python None of an Optional[int] field
NoneInt == -1

\* ExportConfig() with the defaults of the schema
DefaultConfig ==
    [include_cast |-> TRUE, include_episodes |-> TRUE,
     include_images |-> TRUE, max_cast |-> 10]

NoData == [isList |-> TRUE, items |-> <<>>]

NoOutput == [raised |-> "", lines |-> <<>>]

\* no route and no dashboard section has been entered
\* no Authorization header (the dashboard sends none)
NoHeader == [scheme |-> "", token |-> [verifies |-> FALSE, sub |-> None]]

\* no create_user call yet
NoSignup == [username |-> None, email |-> None, raised |-> ""]

AppIdle ==
    /\ handler = "none"
    /\ hpc = "idle"
    /\ pending = "none"
    /\ outcome = "none"
    /\ authenticated = FALSE
    /\ queries = <<>>
    /\ qidx = 0
    /\ attempted = <<>>
    /\ fetched = <<>>
    /\ failed = <<>>
    /\ authorization = NoHeader
    /\ rawInput = <<>>
    /\ inputMethod = "none"

-----------------------------------------------------------------------------
(* _img *)

\* variant: only a null path is treated as absent
ImgNullOnly(path, size) ==
    IF path = None
    THEN None
    ELSE IMAGE_BASE_URL \o "/" \o size \o path

_img(path, size) ==
    IF path = None \/ path = ""
    THEN None
    ELSE IMAGE_BASE_URL \o "/" \o size \o path

-----------------------------------------------------------------------------
(* _get_client, close *)

\* most connections counted per client instance
MaxConnections == 2

\* variant: a new connection is created on every call
CreatesAlways(c) == TRUE

\* "self._client is None or self._client.is_closed"
Creates(c) == c = "none" \/ c = "closed"

_get_client(c) == IF Creates(c) THEN "open" ELSE c

\* TMDBClient.close
close(c) == IF c = "open" THEN "closed" ELSE c

\* await self._get_client(), with the count of the connections made
Acquire ==
    /\ client' = _get_client(client)
    /\ created' = IF Creates(client) /\ created < MaxConnections
                  THEN created + 1 ELSE created
    /\ live' = IF Creates(client) /\ live < MaxConnections
               THEN live + 1 ELSE live

\* await client.close(), with the count of the connections left open
Release ==
    /\ client' = close(client)
    /\ created' = created
    /\ live' = IF client = "open" /\ live > 0 THEN live - 1 ELSE live

Close ==
    /\ call = "none"
    /\ Release
    /\ UNCHANGED <<appVars, exportVars, authVars, upstreamPath, call, arg, reqVars, requested, body, tvVars, ret>>

-----------------------------------------------------------------------------
(* _request *)

\* variant: one more turn of the retry loop
MaxAttemptsOneMore == 3 + 1

MaxAttempts == 3

\* variant: flat delay after a rate-limit response
BackoffFlat(a) == 1

\* variant: the delay grows by one second per attempt
BackoffLinear(a) == a + 1

Backoff(a) == 2 ^ a

\* variant: server errors are retried like rate-limit responses
IsRateLimitOrServerError(status) == status = 429 \/ status >= 500

IsRateLimit(status) == status = 429

\* variant: a single retry after a network failure
NetworkRetryOnce(a) == a < 1

\* variant: a network failure never re-raises, the loop just runs out
NetworkRetryAlways(a) == TRUE

NetworkRetry(a) == a < 2

NetworkDelay == 1

RaisesForStatus(status) == status >= 400

StartRequest(ep) ==
    /\ Acquire
    /\ pc' = "send"
    /\ attempt' = 0
    /\ sent' = 0
    /\ trace' = <<>>
    /\ waits' = <<>>
    /\ error' = NoError
    /\ endpoint' = ep
    /\ requested' = Append(requested, ep)

EndRequest ==
    /\ attempt' = 0
    /\ sent' = 0
    /\ trace' = <<>>
    /\ waits' = <<>>
    /\ error' = NoError
    /\ endpoint' = ""

Send ==
    /\ pc = "send"
    /\ pc' = "flight"
    /\ sent' = sent + 1
    /\ UNCHANGED <<connVars, appVars, exportVars, authVars, upstreamPath, client, call, arg, attempt, trace, waits, error,
                   endpoint, requested, body, tvVars, ret>>

Respond(status) ==
    /\ pc = "flight"
    /\ trace' = Append(trace, status)
    /\ IF ~RaisesForStatus(status)
       THEN /\ pc' = "ok"
            /\ waits' = Append(waits, 0)
            /\ UNCHANGED <<attempt, error>>
       ELSE IF IsRateLimit(status)
       THEN /\ waits' = Append(waits, Backoff(attempt))
            /\ attempt' = attempt + 1
            /\ IF attempt + 1 < MaxAttempts
               THEN pc' = "send" /\ UNCHANGED error
               ELSE /\ pc' = "raised"
                    /\ error' = [type |-> "Exception", status |-> 0]
       ELSE /\ pc' = "raised"
            /\ error' = [type |-> "HTTPStatusError", status |-> status]
            /\ waits' = Append(waits, 0)
            /\ UNCHANGED attempt
    /\ UNCHANGED <<connVars, appVars, exportVars, authVars, upstreamPath, client, call, arg, sent, endpoint, requested,
                   body, tvVars, ret>>

NetworkFailure ==
    /\ pc = "flight"
    /\ trace' = Append(trace, RequestError)
    /\ IF NetworkRetry(attempt)
       THEN /\ waits' = Append(waits, NetworkDelay)
            /\ attempt' = attempt + 1
            /\ IF attempt + 1 < MaxAttempts
               THEN pc' = "send" /\ UNCHANGED error
               ELSE /\ pc' = "raised"
                    /\ error' = [type |-> "Exception", status |-> 0]
       ELSE /\ pc' = "raised"
            /\ error' = [type |-> "RequestError", status |-> 0]
            /\ waits' = Append(waits, 0)
            /\ UNCHANGED attempt
    /\ UNCHANGED <<connVars, appVars, exportVars, authVars, upstreamPath, client, call, arg, sent, endpoint, requested,
                   body, tvVars, ret>>

\* "return response.json()": the frame of _request is left
ReturnResponse ==
    /\ pc = "ok"
    /\ EndRequest
    /\ pc' = "returned"
    /\ UNCHANGED <<connVars, appVars, exportVars, authVars, upstreamPath, client, call, arg, requested, body, tvVars, ret>>

\* variant: a failed season request is skipped, the loop goes on
RaiseSeasonSkipped ==
    /\ pc = "raised"
    /\ IF call = "get_tv_show" /\ idx >= 1
       THEN /\ idx' = idx + 1
            /\ UNCHANGED <<ret, seasons, episodes>>
       ELSE /\ ret' = [kind |-> "raise", error |-> error]
            /\ UNCHANGED tvVars
    /\ EndRequest
    /\ pc' = "idle"
    /\ UNCHANGED <<connVars, appVars, exportVars, authVars, upstreamPath, client, call, arg, requested, body>>

\* an exception leaving _request leaves the operation that awaited it
Raise ==
    /\ pc = "raised"
    /\ ret' = [kind |-> "raise", error |-> error]
    /\ EndRequest
    /\ pc' = "idle"
    /\ UNCHANGED <<connVars, appVars, exportVars, authVars, upstreamPath, client, call, arg, requested, body, tvVars>>

\* the caller is done with the operation's outcome
Finish ==
    /\ ret # NoRet
    /\ call' = "none"
    /\ arg' = None
    /\ requested' = <<>>
    /\ body' = NoBody
    /\ seasons' = <<>>
    /\ idx' = 0
    /\ episodes' = <<>>
    /\ ret' = NoRet
    /\ UNCHANGED <<connVars, appVars, exportVars, authVars, upstreamPath, client, reqVars>>

-----------------------------------------------------------------------------
(* Upstream payloads: lists whose entries' kind (or job) repeats with period
   PatLen, so that unwanted entries are interleaved with wanted ones *)

Kinds == {"movie", "tv", "person", Missing}

Jobs == {"Director", "Writer", "Screenplay", "Producer", "Editor", Missing}

Cyc(pat, i) == pat[((i - 1) % PatLen) + 1]

RawResults(n, pat) ==
    [i \in 1..n |-> [id |-> i, media_type |-> Cyc(pat, i),
                     poster_path |-> upstreamPath,
                     backdrop_path |-> upstreamPath]]

RawCast(n) ==
    [i \in 1..n |-> [id |-> i, profile_path |-> upstreamPath]]

RawCrew(n, pat) ==
    [i \in 1..n |-> [id |-> i, job |-> Cyc(pat, i),
                     profile_path |-> upstreamPath]]

RawSeasons(nos) ==
    [i \in 1..Len(nos) |-> [id |-> i, season_number |-> nos[i],
                            poster_path |-> upstreamPath]]

RawEpisodes(n, rev) ==
    [i \in 1..n |-> [id |-> i,
                     episode_number |-> IF rev THEN n + 1 - i ELSE i,
                     still_path |-> upstreamPath]]

SeasonLists ==
    UNION {[1..n -> 0..MaxSeasonNo] : n \in 0..MaxSeasons}

-----------------------------------------------------------------------------
(* _parse_cast, _parse_crew *)

MaxCastDefault == 15

MaxCrew == 10

CastMember(c) ==
    [id |-> c.id, profile_path |-> _img(c.profile_path, "w500")]

_parse_cast(credits_cast) ==
    LET cast_list == Take(credits_cast, MaxCastDefault)
    IN  [i \in 1..Len(cast_list) |-> CastMember(cast_list[i])]

CrewMember(c) ==
    [id |-> c.id, job |-> Get(c.job, "Unknown"),
     profile_path |-> _img(c.profile_path, "w500")]

\* variant: the job allow-list is ignored
ParseCrewUnfiltered(credits_crew, jobs) ==
    LET capped == Take(credits_crew, MaxCrew)
    IN  [i \in 1..Len(capped) |-> CrewMember(capped[i])]

_parse_crew(credits_crew, jobs) ==
    LET crew_list == IF jobs # {}
                     THEN SelectSeq(credits_crew, LAMBDA c : Get(c.job, None) \in jobs)
                     ELSE credits_crew
        capped == Take(crew_list, MaxCrew)
    IN  [i \in 1..Len(capped) |-> CrewMember(capped[i])]

-----------------------------------------------------------------------------
(* search *)

MaxResults == 20

SearchEndpoint(media_type) == "/search/" \o media_type

SearchResult(item, media_type) ==
    [id |-> item.id,
     media_type |-> IF Get(item.media_type, media_type) = "movie" THEN "movie" ELSE "tv",
     poster_path |-> _img(item.poster_path, "w500"),
     backdrop_path |-> _img(item.backdrop_path, "w1280")]

\* variant: every item of the page is kept
SearchUnfiltered(data, media_type) ==
    LET page == Take(data.results, MaxResults)
    IN  [kind |-> "SearchResponse",
         results |-> [i \in 1..Len(page) |-> SearchResult(page[i], media_type)]]

\* variant: filter the whole page, then truncate
SearchFilterFirst(data, media_type) ==
    LET kept == SelectSeq(data.results, LAMBDA item :
                    Get(item.media_type, media_type) \in {"movie", "tv"})
        page == Take(kept, MaxResults)
    IN  [kind |-> "SearchResponse",
         results |-> [i \in 1..Len(page) |-> SearchResult(page[i], media_type)]]

search(data, media_type) ==
    LET page == Take(data.results, MaxResults)
        kept == SelectSeq(page, LAMBDA item :
                    Get(item.media_type, media_type) \in {"movie", "tv"})
    IN  [kind |-> "SearchResponse",
         results |-> [i \in 1..Len(kept) |-> SearchResult(kept[i], media_type)]]

Search(media_type) ==
    /\ call = "none" /\ ret = NoRet
    /\ call' = "search"
    /\ arg' = media_type
    /\ StartRequest(SearchEndpoint(media_type))
    /\ UNCHANGED <<appVars, exportVars, authVars, upstreamPath, body, tvVars, ret>>

SearchReturn ==
    /\ call = "search" /\ pc = "returned"
    /\ \E n \in 0..MaxRaw, pat \in [1..PatLen -> Kinds] :
          body' = [results |-> RawResults(n, pat)]
    /\ ret' = search(body', arg)
    /\ pc' = "idle"
    /\ UNCHANGED <<connVars, appVars, exportVars, authVars, upstreamPath, client, call, arg, attempt, sent, trace, waits,
                   error, endpoint, requested, tvVars>>

-----------------------------------------------------------------------------
(* get_movie *)

MovieEndpoint == "/movie/{movie_id}"

MovieJobs == {"Director", "Writer", "Screenplay", "Producer"}

get_movie(data) ==
    [kind |-> "Movie",
     poster_path |-> _img(data.poster_path, "w500"),
     backdrop_path |-> _img(data.backdrop_path, "w1280"),
     cast |-> _parse_cast(data.credits.cast),
     crew |-> _parse_crew(data.credits.crew, MovieJobs)]

GetMovie ==
    /\ call = "none" /\ ret = NoRet
    /\ call' = "get_movie"
    /\ arg' = None
    /\ StartRequest(MovieEndpoint)
    /\ UNCHANGED <<appVars, exportVars, authVars, upstreamPath, body, tvVars, ret>>

MovieReturn ==
    /\ call = "get_movie" /\ pc = "returned"
    /\ \E ncast \in 0..MaxCastRaw, ncrew \in 0..MaxCrewRaw, pat \in [1..PatLen -> Jobs] :
          body' = [poster_path |-> upstreamPath, backdrop_path |-> upstreamPath,
                   credits |-> [cast |-> RawCast(ncast), crew |-> RawCrew(ncrew, pat)]]
    /\ ret' = get_movie(body')
    /\ pc' = "idle"
    /\ UNCHANGED <<connVars, appVars, exportVars, authVars, upstreamPath, client, call, arg, attempt, sent, trace, waits,
                   error, endpoint, requested, tvVars>>

-----------------------------------------------------------------------------
(* get_tv_show, get_season_episodes *)

TVEndpoint == "/tv/{tv_id}"

SeasonEndpoint(season_number) == "/tv/{tv_id}/season/" \o ToString(season_number)

Season(s) ==
    [id |-> s.id, season_number |-> s.season_number,
     poster_path |-> _img(s.poster_path, "w500")]

\* variant: specials are fetched too
FetchesEverySeason(season_number) == season_number >= 0

FetchesSeason(season_number) == season_number > 0

\* variant: the episodes of a season are returned last first
GetSeasonEpisodesReversed(data, season_number) ==
    LET n == Len(data.episodes) IN
    [i \in 1..n |->
        [id |-> data.episodes[n + 1 - i].id,
         episode_number |-> data.episodes[n + 1 - i].episode_number,
         season_number |-> season_number,
         still_path |-> _img(data.episodes[n + 1 - i].still_path, "w300")]]

get_season_episodes(data, season_number) ==
    [i \in 1..Len(data.episodes) |->
        [id |-> data.episodes[i].id,
         episode_number |-> data.episodes[i].episode_number,
         season_number |-> season_number,
         still_path |-> _img(data.episodes[i].still_path, "w300")]]

GetTVShow(include_episodes) ==
    /\ call = "none" /\ ret = NoRet
    /\ call' = "get_tv_show"
    /\ arg' = include_episodes
    /\ StartRequest(TVEndpoint)
    /\ UNCHANGED <<appVars, exportVars, authVars, upstreamPath, body, tvVars, ret>>

\* the show detail arrives: the season summaries are parsed
TVDetail ==
    /\ call = "get_tv_show" /\ pc = "returned" /\ idx = 0
    /\ \E nos \in SeasonLists :
          body' = [poster_path |-> upstreamPath, backdrop_path |-> upstreamPath,
                   seasons |-> RawSeasons(nos)]
    /\ seasons' = [i \in 1..Len(body'.seasons) |-> Season(body'.seasons[i])]
    /\ idx' = 1
    /\ episodes' = <<>>
    /\ pc' = "idle"
    /\ UNCHANGED <<connVars, appVars, exportVars, authVars, upstreamPath, client, call, arg, attempt, sent, trace, waits,
                   error, endpoint, requested, ret>>

\* one iteration of "for season in seasons" that skips the season
TVSkipSeason ==
    /\ call = "get_tv_show" /\ pc = "idle" /\ ret = NoRet
    /\ arg = TRUE
    /\ idx >= 1 /\ idx <= Len(seasons)
    /\ ~FetchesSeason(seasons[idx].season_number)
    /\ idx' = idx + 1
    /\ UNCHANGED <<connVars, appVars, exportVars, authVars, upstreamPath, client, call, arg, reqVars, requested, body,
                   seasons, episodes, ret>>

\* variant: the next season is requested without awaiting the request in
\* flight
TVRequestSeasonEager ==
    /\ call = "get_tv_show" /\ pc \in {"idle", "flight"} /\ ret = NoRet
    /\ arg = TRUE
    /\ idx >= 1 /\ idx <= Len(seasons)
    /\ Len(requested) <= Len(seasons)
    /\ FetchesSeason(seasons[idx].season_number)
    /\ StartRequest(SeasonEndpoint(seasons[idx].season_number))
    /\ UNCHANGED <<appVars, exportVars, authVars, upstreamPath, call, arg, body, tvVars, ret>>

\* one iteration that calls get_season_episodes
TVRequestSeason ==
    /\ call = "get_tv_show" /\ pc = "idle" /\ ret = NoRet
    /\ arg = TRUE
    /\ idx >= 1 /\ idx <= Len(seasons)
    /\ FetchesSeason(seasons[idx].season_number)
    /\ StartRequest(SeasonEndpoint(seasons[idx].season_number))
    /\ UNCHANGED <<appVars, exportVars, authVars, upstreamPath, call, arg, body, tvVars, ret>>

\* the season detail arrives: its episodes extend the flat list
TVSeasonReturn ==
    /\ call = "get_tv_show" /\ pc = "returned" /\ idx >= 1
    /\ \E n \in 0..MaxEps, rev \in BOOLEAN :
          body' = [episodes |-> RawEpisodes(n, rev)]
    /\ episodes' = episodes \o get_season_episodes(body', seasons[idx].season_number)
    /\ idx' = idx + 1
    /\ pc' = "idle"
    /\ UNCHANGED <<connVars, appVars, exportVars, authVars, upstreamPath, client, call, arg, attempt, sent, trace, waits,
                   error, endpoint, requested, seasons, ret>>

\* the loop is over (or was not entered): the TVShow record is built; the
\* detail's poster and backdrop paths are the catalog's upstreamPath
TVReturn ==
    /\ call = "get_tv_show" /\ pc = "idle" /\ ret = NoRet
    /\ idx >= 1
    /\ arg = FALSE \/ idx > Len(seasons)
    /\ ret' = [kind |-> "TVShow",
               poster_path |-> _img(upstreamPath, "w500"),
               backdrop_path |-> _img(upstreamPath, "w1280"),
               seasons |-> seasons,
               episodes |-> episodes]
    /\ UNCHANGED <<connVars, appVars, exportVars, authVars, upstreamPath, client, call, arg, reqVars, requested, body, tvVars>>

-----------------------------------------------------------------------------

Init ==
    /\ upstreamPath \in Paths
    /\ client = "none"
    /\ created = 0
    /\ live = 0
    /\ call = "none"
    /\ arg = None
    /\ pc = "idle"
    /\ attempt = 0
    /\ sent = 0
    /\ trace = <<>>
    /\ waits = <<>>
    /\ error = NoError
    /\ endpoint = ""
    /\ requested = <<>>
    /\ body = NoBody
    /\ seasons = <<>>
    /\ idx = 0
    /\ episodes = <<>>
    /\ ret = NoRet
    /\ exporter = "none"
    /\ exportData = NoData
    /\ exportConfig = DefaultConfig
    /\ prepared = <<>>
    /\ output = NoOutput
    /\ second = "none"
    /\ previous = NoOutput
    /\ users = <<>>
    /\ signup = NoSignup
    /\ AppIdle

Next ==
    \/ \E media_type \in {"movie", "tv", "multi"} : Search(media_type)
    \/ GetMovie
    \/ \E include_episodes \in BOOLEAN : GetTVShow(include_episodes)
    \/ Send
    \/ \E status \in Statuses : Respond(status)
    \/ NetworkFailure
    \/ ReturnResponse
    \/ SearchReturn
    \/ MovieReturn
    \/ TVDetail
    \/ TVSkipSeason
    \/ TVRequestSeason
    \/ TVSeasonReturn
    \/ TVReturn
    \/ Raise
    \/ Finish
    \/ Close

Spec == Init /\ [][Next]_vars

-----------------------------------------------------------------------------
(* Properties of the request routine *)

AllOf(s, S) == \A i \in 1..Len(s) : s[i] \in S

Transient == {429, RequestError}

\* every step that leaves a failed _request hands its exception to the caller
RaisedToCaller ==
    [][pc = "raised" => ret' = [kind |-> "raise", error |-> error]]_vars

\* C1: a request answered only by rate-limit (429) responses is sent at most
\* 3 times; after the third 429 nothing more is sent and the request has failed
C1_RateLimitAtMostThree ==
    AllOf(trace, {429}) =>
        /\ sent <= 3
        /\ Len(trace) >= 3 => (pc = "raised" /\ error.type # "none")

C1_Witness == pc = "raised" /\ trace = <<429, 429, 429>> /\ sent = 3

\* C2: the sleep after the k-th attempt, when that attempt was rate-limited,
\* is 2^(k-1) seconds; a request rate-limited on attempts 1 and 2 that
\* succeeds on attempt 3 returns after having slept at least 3 seconds
C2_ExponentialBackoff ==
    /\ \A k \in 1..Len(trace) : trace[k] = 429 => waits[k] = 2 ^ (k - 1)
    /\ (pc = "ok" /\ trace = <<429, 429, 200>>) => SumSeq(waits) >= 3

C2_Witness == pc = "ok" /\ trace = <<429, 429, 200>> /\ waits = <<1, 2, 0>>

\* C3: a network failure on attempt 1 or 2 is followed by a 1-second sleep
\* and a re-send, so at most 2 further attempts follow a network failure;
\* the request returns at the first attempt that succeeds
C3_NetworkRetry ==
    /\ \A k \in 1..Len(trace) : trace[k] = RequestError =>
          /\ sent - k <= 2
          /\ k < 3 => /\ waits[k] = 1
                      /\ pc \in {"send", "flight", "ok", "raised"}
                      /\ (pc = "raised" => Len(trace) > k)
    /\ pc = "ok" => /\ trace[Len(trace)] = 200
                    /\ \A k \in 1..(Len(trace) - 1) : trace[k] # 200

C3_Witness == pc = "ok" /\ trace = <<RequestError, RequestError, 200>> /\ waits = <<1, 1, 0>>

\* C4: an HTTP error status other than 429, on whichever attempt, ends the
\* request at once: no sleep, no further send, and the status error is what
\* reaches the caller
C4_OtherStatusNotRetried ==
    /\ [](\A k \in 1..Len(trace) : (trace[k] >= 400 /\ trace[k] # 429) =>
            /\ k = Len(trace)
            /\ sent = k
            /\ waits[k] = 0
            /\ pc = "raised"
            /\ error = [type |-> "HTTPStatusError", status |-> trace[k]])
    /\ RaisedToCaller

C4_Witness == pc = "raised" /\ trace = <<429, 500>> /\ sent = 2

\* C5 as stated: when all 3 attempts are consumed by transient failures the
\* error is the retry-exhausted one, whichever kind of failure it was
C5_Original ==
    (Len(trace) = 3 /\ AllOf(trace, Transient)) =>
        (pc = "raised" /\ error.type = "Exception")

\* C5 amended: when all 3 attempts are consumed by transient failures the
\* request fails and the failure reaches the caller: the retry-exhausted
\* error if the third attempt was rate-limited, the network error itself if
\* the third attempt was a network failure
C5_ExhaustedFails ==
    /\ []((Len(trace) = 3 /\ AllOf(trace, Transient)) =>
            /\ pc = "raised"
            /\ error.type = IF trace[3] = 429 THEN "Exception" ELSE "RequestError")
    /\ RaisedToCaller

C5_Witness == pc = "raised" /\ trace = <<429, RequestError, RequestError>>

-----------------------------------------------------------------------------
(* Properties of search *)

Wanted(item, media_type) == Get(item.media_type, media_type) \in {"movie", "tv"}

Ids(s) == [i \in 1..Len(s) |-> s[i].id]

Increasing(s) == \A i \in 1..(Len(s) - 1) : s[i] < s[i + 1]

\* C6: a search result has at most 20 entries, each of media_type movie or
\* tv, and none of them comes from an upstream item of another kind
C6_SearchResults ==
    ret.kind = "SearchResponse" =>
        /\ Len(ret.results) <= 20
        /\ \A i \in 1..Len(ret.results) :
              /\ ret.results[i].media_type \in {"movie", "tv"}
              /\ ret.results[i].id \in 1..Len(body.results)
              /\ Wanted(body.results[ret.results[i].id], arg)

C6_Witness ==
    /\ ret.kind = "SearchResponse"
    /\ Len(body.results) > 20
    /\ \E i \in 1..20 : Get(body.results[i].media_type, arg) = "person"
    /\ Len(ret.results) >= 1

\* C7 as stated: the result is the first min(20, k) of the k movie/tv items
\* of the whole upstream page
C7_Original ==
    ret.kind = "SearchResponse" =>
        Ids(ret.results) =
            Take(Ids(SelectSeq(body.results, LAMBDA item : Wanted(item, arg))), 20)

\* C7 amended: the result is, in upstream order, exactly the movie/tv items
\* found among the first 20 raw items of the upstream page
C7_TruncateThenFilter ==
    ret.kind = "SearchResponse" =>
        /\ Increasing(Ids(ret.results))
        /\ \A i \in 1..Len(body.results) :
              (i <= 20 /\ Wanted(body.results[i], arg))
                  <=> (\E j \in 1..Len(ret.results) : ret.results[j].id = i)

C7_Witness ==
    /\ ret.kind = "SearchResponse"
    /\ Len(body.results) > 20
    /\ \E i \in 1..20 : ~Wanted(body.results[i], arg)
    /\ \E i \in 21..Len(body.results) : Wanted(body.results[i], arg)
    /\ Len(ret.results) >= 1

-----------------------------------------------------------------------------
(* Properties of image resolution *)

Absent(path) == path = None \/ path = ""

\* the URL the records must carry for the upstream path at a size tier
Url(size) ==
    IF Absent(upstreamPath) THEN None
    ELSE IF size = "w500"  THEN "https://image.tmdb.org/t/p/w500/a.jpg"
    ELSE IF size = "w1280" THEN "https://image.tmdb.org/t/p/w1280/a.jpg"
    ELSE "https://image.tmdb.org/t/p/w300/a.jpg"

\* C8: every image field of a returned record is None when the upstream path
\* is absent or empty, and image base + "/" + size tier + path otherwise
C8_ImageUrls ==
    /\ ret.kind = "SearchResponse" =>
          \A i \in 1..Len(ret.results) :
              /\ ret.results[i].poster_path = Url("w500")
              /\ ret.results[i].backdrop_path = Url("w1280")
    /\ ret.kind = "Movie" =>
          /\ ret.poster_path = Url("w500")
          /\ ret.backdrop_path = Url("w1280")
          /\ \A i \in 1..Len(ret.cast) : ret.cast[i].profile_path = Url("w500")
          /\ \A i \in 1..Len(ret.crew) : ret.crew[i].profile_path = Url("w500")
    /\ ret.kind = "TVShow" =>
          /\ ret.poster_path = Url("w500")
          /\ ret.backdrop_path = Url("w1280")
          /\ \A i \in 1..Len(ret.seasons) : ret.seasons[i].poster_path = Url("w500")
          /\ \A i \in 1..Len(ret.episodes) : ret.episodes[i].still_path = Url("w300")

C8_Witness ==
    /\ ret.kind = "TVShow"
    /\ upstreamPath = ""
    /\ Len(ret.seasons) >= 1
    /\ Len(ret.episodes) >= 1
    /\ ret.episodes[1].still_path = None

-----------------------------------------------------------------------------
(* Properties of get_movie *)

\* C9: the cast of a movie is the first min(15, n) upstream cast entries in
\* upstream order; its crew has at most 10 entries, in upstream order, each
\* an upstream entry with a job among Director, Writer, Screenplay, Producer
C9_MovieCredits ==
    ret.kind = "Movie" =>
        LET n == Len(body.credits.cast) IN
        /\ Len(ret.cast) = IF n < 15 THEN n ELSE 15
        /\ \A i \in 1..Len(ret.cast) : ret.cast[i].id = body.credits.cast[i].id
        /\ Len(ret.crew) <= 10
        /\ Increasing(Ids(ret.crew))
        /\ \A i \in 1..Len(ret.crew) :
              /\ ret.crew[i].job \in {"Director", "Writer", "Screenplay", "Producer"}
              /\ ret.crew[i].id \in 1..Len(body.credits.crew)
              /\ body.credits.crew[ret.crew[i].id].job = ret.crew[i].job

C9_Witness ==
    /\ ret.kind = "Movie"
    /\ Len(body.credits.cast) > 15
    /\ Len(ret.cast) = 15
    /\ Len(ret.crew) >= 1
    /\ Len(ret.crew) < Len(body.credits.crew)

-----------------------------------------------------------------------------
(* Properties of get_tv_show *)

\* the season endpoints of the summaries with season_number > 0, in order
RECURSIVE SeasonRequests(_)
SeasonRequests(ss) ==
    IF ss = <<>> THEN <<>>
    ELSE (IF ss[1].season_number > 0
          THEN <<"/tv/{tv_id}/season/" \o ToString(ss[1].season_number)>>
          ELSE <<>>) \o SeasonRequests(Tail(ss))

\* C10: a show fetch asks for the show detail once; with include_episodes it
\* never asks for season 0 and, when it returns, has asked exactly once for
\* each season summary with season_number > 0; without include_episodes it
\* asks for nothing else and returns an empty episodes list
C10_SeasonRequests ==
    (call = "get_tv_show") =>
        /\ requested[1] = "/tv/{tv_id}"
        /\ \A i \in 2..Len(requested) :
              /\ requested[i] # "/tv/{tv_id}"
              /\ requested[i] # "/tv/{tv_id}/season/0"
        /\ arg = FALSE =>
              /\ requested = <<"/tv/{tv_id}">>
              /\ ret.kind = "TVShow" => ret.episodes = <<>>
        /\ (arg = TRUE /\ ret.kind = "TVShow") =>
              requested = <<"/tv/{tv_id}">> \o SeasonRequests(ret.seasons)

C10_Witness ==
    /\ ret.kind = "TVShow"
    /\ arg = TRUE
    /\ \E i \in 1..Len(ret.seasons) : ret.seasons[i].season_number = 0
    /\ \E i \in 1..Len(ret.seasons) : ret.seasons[i].season_number > 0
    /\ Len(requested) >= 2

-----------------------------------------------------------------------------
(* Records handed to the exporters (src/models/schemas.py)                 *)
(* A record is its model_dump(): a function from field names to values.    *)

\* longest cast list of an exported record
MaxCastLen == 2

\* most regular seasons of an exported show
MaxShowSeasons == 2

\* most fetched episodes per season of an exported show
MaxShowEps == 2

\* longest exported list
MaxListLen == 2

Overviews == {None, "A thief."}

\* budget / revenue as get_movie passes them on: null, 0 or a real amount
Amounts == {NoneInt, 0, 160000000}

\* the image path upstream of the records' image urls
ImagePaths == {None, "/a.jpg"}

\* max_cast of the configuration: any int, the schema validates nothing
MaxCastValues == {-1, 0, 1, 10}

Configs ==
    [include_cast : BOOLEAN, include_episodes : BOOLEAN,
     include_images : BOOLEAN, max_cast : MaxCastValues]

CastList(n, path) ==
    [i \in 1..n |->
        [name |-> "Actor" \o ToString(i),
         character |-> "Role" \o ToString(i),
         profile_path |-> _img(path, "w500")]]

Movie(overview, opt, budget, revenue, path, ncast) ==
    [id |-> 27205,
     title |-> "Inception",
     overview |-> overview,
     release_date |-> IF opt THEN "2010-07-15" ELSE None,
     runtime |-> IF opt THEN 148 ELSE NoneInt,
     poster_path |-> _img(path, "w500"),
     backdrop_path |-> _img(path, "w1280"),
     cast |-> CastList(ncast, path),
     tagline |-> IF opt THEN "Dream." ELSE None,
     budget |-> budget,
     revenue |-> revenue]

SeasonSummary(n, count, path) ==
    [id |-> 100 + n,
     season_number |-> n,
     name |-> IF n = 0 THEN "Specials" ELSE "Season " \o ToString(n),
     episode_count |-> count,
     poster_path |-> _img(path, "w500")]

Episode(s, e, path) ==
    [id |-> 1000 + 10 * s + e,
     episode_number |-> e,
     season_number |-> s,
     name |-> "Episode " \o ToString(e),
     still_path |-> _img(path, "w300")]

\* a show with nreg regular seasons (and the specials when asked), carrying
\* neps fetched episodes per regular season (0: fetched without episodes)
TVShow(overview, opt, path, ncast, specials, nreg, neps) ==
    [id |-> 1399,
     name |-> "Thrones",
     overview |-> overview,
     first_air_date |-> IF opt THEN "2011-04-17" ELSE None,
     poster_path |-> _img(path, "w500"),
     backdrop_path |-> _img(path, "w1280"),
     cast |-> CastList(ncast, path),
     seasons |-> (IF specials THEN <<SeasonSummary(0, 1, path)>> ELSE <<>>)
                 \o [n \in 1..nreg |-> SeasonSummary(n, MaxShowEps, path)],
     tagline |-> IF opt THEN "Winter." ELSE None,
     episodes |-> [k \in 1..(nreg * neps) |->
                      Episode(((k - 1) \div neps) + 1, ((k - 1) % neps) + 1, path)]]

Movies ==
    {Movie(o, p, b, r, i, n) :
        o \in Overviews, p \in BOOLEAN, b \in Amounts, r \in Amounts,
        i \in ImagePaths, n \in 0..MaxCastLen}

TVShows ==
    {TVShow(o, p, i, n, sp, nr, ne) :
        o \in Overviews, p \in BOOLEAN, i \in ImagePaths, n \in 0..MaxCastLen,
        sp \in BOOLEAN, nr \in 0..MaxShowSeasons, ne \in 0..MaxShowEps}

\* the records lists are made of
ListPool ==
    {Movie("A thief.", TRUE, 160000000, NoneInt, "/a.jpg", 1),
     Movie(None, FALSE, 0, 160000000, None, 0),
     TVShow("A thief.", TRUE, "/a.jpg", 1, TRUE, 1, 1),
     TVShow(None, FALSE, None, 0, FALSE, 1, 0)}

Lists == UNION {[1..n -> ListPool] : n \in 0..MaxListLen}

ExportInputs ==
    {[isList |-> FALSE, items |-> <<x>>] : x \in Movies \cup TVShows}
    \cup {[isList |-> TRUE, items |-> l] : l \in Lists}

\* hasattr(item, 'title') / 'title' in prepared
IsMovie(d) == "title" \in DOMAIN d

-----------------------------------------------------------------------------
(* BaseExporter.prepare_data *)

\* dict.pop(key, None)
Pop(d, key) == [k \in DOMAIN d \ {key} |-> d[k]]

\* variant: the entry at position stop is kept too
SliceToInclusive(l, stop) ==
    Take(l, IF stop >= 0 THEN stop + 1
            ELSE IF Len(l) + stop + 1 > 0 THEN Len(l) + stop + 1 ELSE 0)

\* list[:stop]
SliceTo(l, stop) ==
    Take(l, IF stop >= 0 THEN stop
            ELSE IF Len(l) + stop > 0 THEN Len(l) + stop ELSE 0)

\* variant: the episodes are kept whatever include_episodes says
PrepareDataKeepEpisodes(config, d) ==
    LET d1 == IF ~config.include_cast
              THEN Pop(d, "cast")
              ELSE IF config.max_cast # 0
                   THEN [d EXCEPT !["cast"] = SliceTo(d.cast, config.max_cast)]
                   ELSE d
    IN IF ~config.include_images
       THEN LET e == Pop(Pop(Pop(d1, "poster_path"), "backdrop_path"),
                         "still_path")
            IN IF "episodes" \in DOMAIN e
               THEN [e EXCEPT !["episodes"] =
                       [i \in 1..Len(e.episodes) |->
                            Pop(e.episodes[i], "still_path")]]
               ELSE e
       ELSE d1

prepare_data(config, d) ==
    LET d1 == IF ~config.include_cast
              THEN Pop(d, "cast")
              ELSE IF config.max_cast # 0
                   THEN [d EXCEPT !["cast"] = SliceTo(d.cast, config.max_cast)]
                   ELSE d
        d2 == IF ~config.include_episodes THEN Pop(d1, "episodes") ELSE d1
        d3 == IF ~config.include_images
              THEN LET e == Pop(Pop(Pop(d2, "poster_path"), "backdrop_path"),
                                "still_path")
                   IN IF "episodes" \in DOMAIN e
                      THEN [e EXCEPT !["episodes"] =
                              [i \in 1..Len(e.episodes) |->
                                   Pop(e.episodes[i], "still_path")]]
                      ELSE e
              ELSE d2
    IN d3

\* variant: model_dump hands out the record's own fields, so the pops and the
\* slice of prepare_data act on the record
ItemAfterPrepareInPlace(config, item) == prepare_data(config, item)

\* the record after prepare_data: "data = item.model_dump()" builds new
\* dicts and lists, and every pop and slice acts on those
ItemAfterPrepare(config, item) == item

\* an exporter exports once, and then once more: the same instance again, or
\* a second instance constructed with the same configuration
CanExport(kind) ==
    \/ exporter = "none"
    \/ exporter = kind /\ second = "none"

\* what one call of export leaves behind, whichever the format
Exporting ==
    /\ previous' = output
    /\ \E instance \in {"same", "new"} :
          second' = IF exporter = "none" THEN "none" ELSE instance
    /\ exportData' =
          [isList |-> exportData.isList,
           items |-> [i \in 1..Len(exportData.items) |->
                         ItemAfterPrepare(exportConfig, exportData.items[i])]]

PreparedAll ==
    [i \in 1..Len(exportData.items) |->
        prepare_data(exportConfig, exportData.items[i])]

InitExport ==
    /\ upstreamPath = None
    /\ client = "none"
    /\ created = 0
    /\ live = 0
    /\ call = "none"
    /\ arg = None
    /\ pc = "idle"
    /\ attempt = 0
    /\ sent = 0
    /\ trace = <<>>
    /\ waits = <<>>
    /\ error = NoError
    /\ endpoint = ""
    /\ requested = <<>>
    /\ body = NoBody
    /\ seasons = <<>>
    /\ idx = 0
    /\ episodes = <<>>
    /\ ret = NoRet
    /\ exporter = "none"
    /\ exportData \in ExportInputs
    /\ exportConfig \in Configs
    /\ prepared = <<>>
    /\ output = NoOutput
    /\ second = "none"
    /\ previous = NoOutput
    /\ users = <<>>
    /\ signup = NoSignup
    /\ AppIdle

-----------------------------------------------------------------------------
(* Exported text                                                           *)
(* A text is the sequence of its lines (TXT, JSON, XML) or of the writes   *)
(* that produced it (CSV); a line keeps its fixed part (tag) apart from    *)
(* the values formatted into it (cells).                                   *)

Line(tag, text) == [tag |-> tag, cells |-> <<text>>, str |-> TRUE]

\* a list element that is a value of the record, not a formatted string
Raw(v) == [tag |-> "", cells |-> <<v>>, str |-> v # None]

Blank == Line("", "")

Returned(lines) == [raised |-> "", lines |-> lines]

Raised(type) == [raised |-> type, lines |-> <<>>]

\* str(v) of an Optional[int]
IntStr(v) == IF v = NoneInt THEN None ELSE ToString(v)

Pad3(k) ==
    IF k < 10 THEN "00" \o ToString(k)
    ELSE IF k < 100 THEN "0" \o ToString(k)
    ELSE ToString(k)

\* format(n, ',')
RECURSIVE Commas(_)
Commas(n) ==
    IF n < 1000 THEN ToString(n)
    ELSE Commas(n \div 1000) \o "," \o Pad3(n % 1000)

\* dict.get(key, default)
DictGet(d, key, default) == IF key \in DOMAIN d THEN d[key] ELSE default

\* bool(d.get(key)) of a list field
HasItems(d, key) == key \in DOMAIN d /\ d[key] # <<>>

\* bool(d.get(key)) of an Optional[str] field
HasText(d, key) == key \in DOMAIN d /\ d[key] # None /\ d[key] # ""

\* bool(d.get(key)) of an Optional[int] field
HasAmount(d, key) == key \in DOMAIN d /\ d[key] # NoneInt /\ d[key] # 0

RECURSIVE Flatten(_)
Flatten(ss) == IF ss = <<>> THEN <<>> ELSE Head(ss) \o Flatten(Tail(ss))

-----------------------------------------------------------------------------
(* TXTExporter *)

CastLines(d) ==
    IF HasItems(d, "cast")
    THEN <<Line("Cast:", "")>>
         \o [i \in 1..Len(d.cast) |->
                [tag |-> "  - ",
                 cells |-> <<d.cast[i].name, d.cast[i].character>>,
                 str |-> TRUE]]
         \o <<Blank>>
    ELSE <<>>

PosterLines(d) ==
    IF HasText(d, "poster_path")
    THEN <<Line("\nPoster: ", d.poster_path)>>
    ELSE <<>>

\* variant: the budget line is written whenever a budget is present
BudgetLinesIfPresent(movie) ==
    IF "budget" \in DOMAIN movie /\ movie.budget # NoneInt
    THEN <<Line("Budget: $", Commas(movie.budget))>>
    ELSE <<>>

BudgetLines(movie) ==
    IF HasAmount(movie, "budget")
    THEN <<Line("Budget: $", Commas(movie.budget))>>
    ELSE <<>>

RevenueLines(movie) ==
    IF HasAmount(movie, "revenue")
    THEN <<Line("Revenue: $", Commas(movie.revenue))>>
    ELSE <<>>

\* variant: an absent overview is replaced by the default text
OverviewLineDefaulted(d) ==
    IF DictGet(d, "overview", None) = None
    THEN Raw("No overview available.")
    ELSE Raw(d.overview)

OverviewLine(d) == Raw(DictGet(d, "overview", "No overview available."))

\* the list `lines` of _format_movie, before the join
_format_movie(movie) ==
    <<Line("====", ""),
      Line("MOVIE: ", DictGet(movie, "title", "Unknown")),
      Line("====", ""),
      Blank,
      Line("Release Date: ", DictGet(movie, "release_date", "N/A")),
      Line("Runtime: ", IntStr(DictGet(movie, "runtime", NoneInt))),
      Blank,
      Line("Tagline: ", DictGet(movie, "tagline", "N/A")),
      Blank,
      Line("Overview:", ""),
      OverviewLine(movie),
      Blank>>
    \o CastLines(movie)
    \o BudgetLines(movie)
    \o RevenueLines(movie)
    \o PosterLines(movie)

SeasonLines(tv) ==
    IF HasItems(tv, "seasons")
    THEN <<Line("Seasons:", "")>>
         \o [i \in 1..Len(tv.seasons) |->
                [tag |-> "  Season ",
                 cells |-> <<ToString(tv.seasons[i].season_number),
                             tv.seasons[i].name,
                             ToString(tv.seasons[i].episode_count)>>,
                 str |-> TRUE]]
         \o <<Blank>>
    ELSE <<>>

EpisodeLines(tv) ==
    IF HasItems(tv, "episodes")
    THEN <<Line("Episodes:", "")>>
         \o Flatten([i \in 1..Len(tv.episodes) |->
                (IF i = 1 \/ tv.episodes[i].season_number
                                # tv.episodes[i - 1].season_number
                 THEN <<Line("\n  Season ",
                             ToString(tv.episodes[i].season_number))>>
                 ELSE <<>>)
                \o <<[tag |-> "    S",
                      cells |-> <<ToString(tv.episodes[i].season_number),
                                  ToString(tv.episodes[i].episode_number),
                                  tv.episodes[i].name>>,
                      str |-> TRUE]>>])
    ELSE <<>>

\* the list `lines` of _format_tv, before the join
_format_tv(tv) ==
    <<Line("====", ""),
      Line("TV SHOW: ", DictGet(tv, "name", "Unknown")),
      Line("====", ""),
      Blank,
      Line("First Air Date: ", DictGet(tv, "first_air_date", "N/A")),
      Blank,
      Line("Tagline: ", DictGet(tv, "tagline", "N/A")),
      Blank,
      Line("Overview:", ""),
      OverviewLine(tv),
      Blank>>
    \o CastLines(tv)
    \o SeasonLines(tv)
    \o EpisodeLines(tv)
    \o PosterLines(tv)

\* '\n'.join(lines): a str, or TypeError when an element is not a str
Join(lines) ==
    IF \E i \in 1..Len(lines) : ~lines[i].str
    THEN Raised("TypeError")
    ELSE Returned(lines)

\* variant: a separator is written even when there is nothing to join
JoinPartsSeparated(parts) ==
    IF parts = <<>> THEN <<Blank>>
    ELSE IF Len(parts) = 1 THEN parts[1]
    ELSE parts[1] \o <<Blank>> \o parts[2]

\* '\n\n'.join(parts)
RECURSIVE JoinParts(_)
JoinParts(parts) ==
    IF parts = <<>> THEN <<>>
    ELSE IF Len(parts) = 1 THEN parts[1]
    ELSE parts[1] \o <<Blank>> \o JoinParts(Tail(parts))

TXT_export(config, data) ==
    LET parts == [i \in 1..Len(data.items) |->
                     LET p == prepare_data(config, data.items[i])
                     IN Join(IF IsMovie(p) THEN _format_movie(p)
                             ELSE _format_tv(p))]
    IN IF \E i \in 1..Len(parts) : parts[i].raised # ""
       THEN Raised("TypeError")
       ELSE Returned(JoinParts([i \in 1..Len(parts) |-> parts[i].lines]))

ExportTXT ==
    /\ CanExport("txt")
    /\ exporter' = "txt"
    /\ prepared' = PreparedAll
    /\ output' = TXT_export(exportConfig, exportData)
    /\ Exporting
    /\ UNCHANGED <<appVars, authVars, clientVars, exportConfig>>

-----------------------------------------------------------------------------
(* CSVExporter *)

\* what csv.DictWriter writes for an Optional[str] / Optional[int] value
CsvStr(v) == IF v = None THEN "" ELSE v

CsvInt(v) == IF v = NoneInt THEN "" ELSE ToString(v)

\* ', '.join(c.get('name', '') for c in d.get('cast', []))
RECURSIVE JoinNames(_)
JoinNames(cast) ==
    IF cast = <<>> THEN ""
    ELSE IF Len(cast) = 1 THEN cast[1].name
    ELSE cast[1].name \o ", " \o JoinNames(Tail(cast))

CastNames(d) == IF "cast" \in DOMAIN d THEN JoinNames(d.cast) ELSE ""

Header(fieldnames) == [tag |-> "header", cells |-> fieldnames, str |-> TRUE]

Row(cells) == [tag |-> "row", cells |-> cells, str |-> TRUE]

\* output.write(text)
Write(text) == [tag |-> "write", cells |-> <<text>>, str |-> TRUE]

MovieFields ==
    <<"id", "title", "release_date", "runtime", "overview", "tagline",
      "budget", "revenue", "poster_path", "cast">>

TVFields ==
    <<"id", "name", "first_air_date", "overview", "tagline", "poster_path",
      "cast">>

EpisodeFields ==
    <<"tv_id", "tv_name", "season_number", "episode_number", "name">>

EPISODES_MARKER == "\n\n--- EPISODES ---\n"

_movie_to_row(movie) ==
    Row(<<CsvInt(DictGet(movie, "id", NoneInt)),
          CsvStr(DictGet(movie, "title", "")),
          CsvStr(DictGet(movie, "release_date", "")),
          CsvInt(DictGet(movie, "runtime", NoneInt)),
          CsvStr(DictGet(movie, "overview", "")),
          CsvStr(DictGet(movie, "tagline", "")),
          CsvInt(DictGet(movie, "budget", NoneInt)),
          CsvInt(DictGet(movie, "revenue", NoneInt)),
          CsvStr(DictGet(movie, "poster_path", "")),
          CastNames(movie)>>)

_tv_to_row(tv) ==
    Row(<<CsvInt(DictGet(tv, "id", NoneInt)),
          CsvStr(DictGet(tv, "name", "")),
          CsvStr(DictGet(tv, "first_air_date", "")),
          CsvStr(DictGet(tv, "overview", "")),
          CsvStr(DictGet(tv, "tagline", "")),
          CsvStr(DictGet(tv, "poster_path", "")),
          CastNames(tv)>>)

\* variant: the episode rows are written last episode first
EpisodesToCsvReversed(tv) ==
    IF ~HasItems(tv, "episodes")
    THEN <<>>
    ELSE <<Header(EpisodeFields)>>
         \o [i \in 1..Len(tv.episodes) |->
                LET ep == tv.episodes[Len(tv.episodes) + 1 - i] IN
                Row(<<CsvInt(DictGet(tv, "id", NoneInt)),
                      CsvStr(DictGet(tv, "name", "")),
                      ToString(ep.season_number),
                      ToString(ep.episode_number),
                      ep.name>>)]

_episodes_to_csv(tv) ==
    IF ~HasItems(tv, "episodes")
    THEN <<>>
    ELSE <<Header(EpisodeFields)>>
         \o [i \in 1..Len(tv.episodes) |->
                LET ep == tv.episodes[i] IN
                Row(<<CsvInt(DictGet(tv, "id", NoneInt)),
                      CsvStr(DictGet(tv, "name", "")),
                      ToString(ep.season_number),
                      ToString(ep.episode_number),
                      ep.name>>)]

CSV_export(config, data) ==
    IF data.isList
    THEN IF data.items = <<>>
         THEN Returned(<<>>)
         ELSE LET is_movie == IsMovie(data.items[1]) IN
              Returned(
                <<Header(IF is_movie THEN MovieFields ELSE TVFields)>>
                \o [i \in 1..Len(data.items) |->
                       LET p == prepare_data(config, data.items[i]) IN
                       IF is_movie THEN _movie_to_row(p) ELSE _tv_to_row(p)])
    ELSE LET p == prepare_data(config, data.items[1]) IN
         IF IsMovie(data.items[1])
         THEN Returned(<<Header(MovieFields), _movie_to_row(p)>>)
         ELSE Returned(
                <<Header(TVFields), _tv_to_row(p)>>
                \o (IF HasItems(p, "episodes")
                    THEN <<Write(EPISODES_MARKER)>> \o _episodes_to_csv(p)
                    ELSE <<>>))

ExportCSV ==
    /\ CanExport("csv")
    /\ exporter' = "csv"
    /\ prepared' = PreparedAll
    /\ output' = CSV_export(exportConfig, exportData)
    /\ Exporting
    /\ UNCHANGED <<appVars, authVars, clientVars, exportConfig>>

-----------------------------------------------------------------------------
(* Field order and field types of the dumped records *)

MovieKeys ==
    <<"id", "title", "overview", "release_date", "runtime", "poster_path",
      "backdrop_path", "cast", "tagline", "budget", "revenue">>

TVShowKeys ==
    <<"id", "name", "overview", "first_air_date", "poster_path",
      "backdrop_path", "cast", "seasons", "tagline", "episodes">>

CastKeys == <<"name", "character", "profile_path">>

SeasonKeys == <<"id", "season_number", "name", "episode_count", "poster_path">>

EpisodeKeys == <<"id", "episode_number", "season_number", "name", "still_path">>

IntKeys ==
    {"id", "runtime", "budget", "revenue", "season_number", "episode_number",
     "episode_count"}

ListKeys == {"cast", "seasons", "episodes"}

ItemKeys(key) ==
    CASE key = "cast" -> CastKeys
      [] key = "seasons" -> SeasonKeys
      [] key = "episodes" -> EpisodeKeys

\* the keys of d, in the order of the schema
KeysOf(d, keys) ==
    LET Has(k) == k \in DOMAIN d IN SelectSeq(keys, Has)

-----------------------------------------------------------------------------
(* JSONExporter *)

\* json.dumps of a scalar field
JsonScalar(key, v) ==
    IF key \in IntKeys
    THEN IF v = NoneInt THEN "null" ELSE ToString(v)
    ELSE IF v = None THEN "null" ELSE "\"" \o v \o "\""

\* json.dumps of a dict of scalars
JsonFlat(d, keys) ==
    <<Line("{", "")>>
    \o [i \in 1..Len(KeysOf(d, keys)) |->
           LET k == KeysOf(d, keys)[i] IN Line(k, JsonScalar(k, d[k]))]
    \o <<Line("}", "")>>

JsonField(d, k) ==
    IF k \in ListKeys
    THEN IF d[k] = <<>>
         THEN <<Line(k, "[]")>>
         ELSE <<Line(k, "[")>>
              \o Flatten([i \in 1..Len(d[k]) |-> JsonFlat(d[k][i], ItemKeys(k))])
              \o <<Line("]", "")>>
    ELSE <<Line(k, JsonScalar(k, d[k]))>>

\* json.dumps of a prepared record
JsonRecord(d) ==
    LET keys == KeysOf(d, IF IsMovie(d) THEN MovieKeys ELSE TVShowKeys) IN
    <<Line("{", "")>>
    \o Flatten([i \in 1..Len(keys) |-> JsonField(d, keys[i])])
    \o <<Line("}", "")>>

\* variant: the records are dumped as they are, prepare_data is not applied
JSONExportUnprepared(config, data) ==
    IF data.isList
    THEN IF data.items = <<>>
         THEN Returned(<<Line("[]", "")>>)
         ELSE Returned(<<Line("[", "")>>
                       \o Flatten([i \in 1..Len(data.items) |->
                                      JsonRecord(data.items[i])])
                       \o <<Line("]", "")>>)
    ELSE Returned(JsonRecord(data.items[1]))

JSON_export(config, data) ==
    LET export_data == [i \in 1..Len(data.items) |->
                           prepare_data(config, data.items[i])]
    IN IF data.isList
       THEN IF export_data = <<>>
            THEN Returned(<<Line("[]", "")>>)
            ELSE Returned(<<Line("[", "")>>
                          \o Flatten([i \in 1..Len(export_data) |->
                                         JsonRecord(export_data[i])])
                          \o <<Line("]", "")>>)
       ELSE Returned(JsonRecord(export_data[1]))

ExportJSON ==
    /\ CanExport("json")
    /\ exporter' = "json"
    /\ prepared' = PreparedAll
    /\ output' = JSON_export(exportConfig, exportData)
    /\ Exporting
    /\ UNCHANGED <<appVars, authVars, clientVars, exportConfig>>

-----------------------------------------------------------------------------
(* XMLExporter *)

XML_DECLARATION == "<?xml version=\"1.0\" ?>"

Open(tag) == Line("<" \o tag \o ">", "")

CloseTag(tag) == Line("</" \o tag \o ">", "")

Empty(tag) == Line("<" \o tag \o "/>", "")

\* <tag>children</tag>, or <tag/> without children
Element(tag, children) ==
    IF children = <<>> THEN <<Empty(tag)>>
    ELSE <<Open(tag)>> \o children \o <<CloseTag(tag)>>

\* key[:-1] if key.endswith('s') else 'item'
ItemTag(key) ==
    CASE key = "cast" -> "item"
      [] key = "seasons" -> "season"
      [] key = "episodes" -> "episode"

IsNone(key, v) == IF key \in IntKeys THEN v = NoneInt ELSE v = None

\* str(value) of a scalar field
XmlText(key, v) == IF key \in IntKeys THEN ToString(v) ELSE v

\* _dict_to_xml of a dict of scalars
XmlFlat(d, keys) ==
    Flatten([i \in 1..Len(KeysOf(d, keys)) |->
        LET k == KeysOf(d, keys)[i] IN
        IF IsNone(k, d[k]) THEN <<>> ELSE <<Line(k, XmlText(k, d[k]))>>])

XmlField(d, k) ==
    IF k \in ListKeys
    THEN Element(k, Flatten([i \in 1..Len(d[k]) |->
                    Element(ItemTag(k), XmlFlat(d[k][i], ItemKeys(k)))]))
    ELSE IF IsNone(k, d[k]) THEN <<>> ELSE <<Line(k, XmlText(k, d[k]))>>

_dict_to_xml(d) ==
    LET keys == KeysOf(d, IF IsMovie(d) THEN MovieKeys ELSE TVShowKeys) IN
    Flatten([i \in 1..Len(keys) |-> XmlField(d, keys[i])])

\* the root element <data generator="MovieFetchBot">
Root(children) ==
    IF children = <<>> THEN <<Line("<data generator=\"MovieFetchBot\"/>", "")>>
    ELSE <<Line("<data generator=\"MovieFetchBot\">", "")>>
         \o children \o <<CloseTag("data")>>

XML_export(config, data) ==
    Returned(
        <<Line(XML_DECLARATION, "")>>
        \o Root(
             Flatten([i \in 1..Len(data.items) |->
                 LET p == prepare_data(config, data.items[i]) IN
                 Element(IF IsMovie(p) THEN "movie" ELSE "tv_show",
                         _dict_to_xml(p))])))

ExportXML ==
    /\ CanExport("xml")
    /\ exporter' = "xml"
    /\ prepared' = PreparedAll
    /\ output' = XML_export(exportConfig, exportData)
    /\ Exporting
    /\ UNCHANGED <<appVars, authVars, clientVars, exportConfig>>

NextExport ==
    \/ ExportJSON
    \/ ExportTXT
    \/ ExportCSV
    \/ ExportXML

SpecExport == InitExport /\ [][NextExport]_vars

-----------------------------------------------------------------------------
(* Properties of prepare_data *)

Exported == exporter # "none"

ImageKeys == {"poster_path", "backdrop_path", "still_path"}

\* C14: the prepared record has a cast field iff include_cast, a show's
\* prepared record has an episodes field iff include_episodes, and every
\* field other than cast, episodes and the image paths is carried over
\* unchanged
C14_PreparedFields ==
    Exported =>
        \A i \in 1..Len(exportData.items) :
            LET d == exportData.items[i]
                p == prepared[i]
            IN /\ "cast" \in DOMAIN p <=> exportConfig.include_cast
               /\ ~IsMovie(d) =>
                     ("episodes" \in DOMAIN p <=> exportConfig.include_episodes)
               /\ \A k \in DOMAIN d \ ({"cast", "episodes"} \cup ImageKeys) :
                     k \in DOMAIN p /\ p[k] = d[k]

C14_Witness ==
    /\ Exported
    /\ ~exportData.isList
    /\ ~IsMovie(exportData.items[1])
    /\ exportData.items[1].cast # <<>>
    /\ exportData.items[1].episodes # <<>>
    /\ ~exportConfig.include_cast
    /\ exportConfig.include_episodes
    /\ "cast" \notin DOMAIN prepared[1]
    /\ "episodes" \in DOMAIN prepared[1]

Min(a, b) == IF a < b THEN a ELSE b

\* include_cast false: the prepared record is the same for every max_cast
MaxCastIgnored ==
    ~exportConfig.include_cast =>
        \A i \in 1..Len(exportData.items) : \A m \in MaxCastValues :
            prepared[i] = prepare_data([exportConfig EXCEPT !.max_cast = m],
                                       exportData.items[i])

\* C15 as stated: with include_cast the prepared cast is the first
\* min(max_cast, n) of the n cast entries, never longer than max_cast, for
\* every max_cast; without include_cast max_cast has no effect
C15_Original ==
    Exported =>
        /\ exportConfig.include_cast =>
              \A i \in 1..Len(exportData.items) :
                  LET cast == exportData.items[i].cast IN
                  /\ prepared[i].cast
                        = SubSeq(cast, 1, Min(exportConfig.max_cast, Len(cast)))
                  /\ Len(prepared[i].cast) <= exportConfig.max_cast
        /\ MaxCastIgnored

\* C15 amended: with include_cast the prepared cast is the first k of the n
\* cast entries in their order, k = min(max_cast, n) when max_cast >= 1,
\* k = n when max_cast = 0 and k = max(n + max_cast, 0) when max_cast < 0;
\* without include_cast max_cast has no effect
C15_CastTruncation ==
    Exported =>
        /\ exportConfig.include_cast =>
              \A i \in 1..Len(exportData.items) :
                  LET cast == exportData.items[i].cast
                      n == Len(cast)
                      m == exportConfig.max_cast
                      k == IF m >= 1 THEN Min(m, n)
                           ELSE IF m = 0 THEN n
                           ELSE IF n + m > 0 THEN n + m ELSE 0
                  IN /\ prepared[i].cast = SubSeq(cast, 1, k)
                     /\ m >= 1 => Len(prepared[i].cast) <= m
        /\ MaxCastIgnored

C15_Witness ==
    /\ Exported
    /\ ~exportData.isList
    /\ exportConfig.include_cast
    /\ exportConfig.max_cast >= 1
    /\ Len(exportData.items[1].cast) > exportConfig.max_cast
    /\ Len(prepared[1].cast) = exportConfig.max_cast

\* the image-path fields left in a list of entries
NestedImageKeys(p, key) ==
    IF key \in DOMAIN p
    THEN UNION {DOMAIN p[key][i] \cap ImageKeys : i \in 1..Len(p[key])}
    ELSE {}

\* C16: without include_images the prepared record has no poster_path,
\* backdrop_path or still_path field at the top level or in a nested entry;
\* with include_images these fields are left as they are
C16_NoImagePaths ==
    Exported =>
        \A i \in 1..Len(exportData.items) :
            LET d == exportData.items[i]
                p == prepared[i]
            IN IF exportConfig.include_images
               THEN /\ \A k \in DOMAIN d \cap ImageKeys :
                         k \in DOMAIN p /\ p[k] = d[k]
                    /\ "episodes" \in DOMAIN p => p.episodes = d.episodes
                    /\ "seasons" \in DOMAIN p => p.seasons = d.seasons
               ELSE /\ DOMAIN p \cap ImageKeys = {}
                    /\ NestedImageKeys(p, "cast") = {}
                    /\ NestedImageKeys(p, "seasons") = {}
                    /\ NestedImageKeys(p, "episodes") = {}

-----------------------------------------------------------------------------
(* Properties of the exporters *)

EmptyList == [isList |-> TRUE, items |-> <<>>]

\* the text is the empty string
EmptyString == Returned(<<>>)

\* C17 as stated: every exporter returns the empty string for an empty list
\* and raises no error
C17_Original == (Exported /\ exportData = EmptyList) => output = EmptyString

\* C17 amended: for an empty list no exporter raises; TXT and CSV return the
\* empty string, JSON returns "[]" and XML returns the declaration followed
\* by the empty root element
C17_EmptyList ==
    (Exported /\ exportData = EmptyList) =>
        /\ output.raised = ""
        /\ exporter \in {"txt", "csv"} => output = EmptyString
        /\ exporter = "json" => output.lines = <<Line("[]", "")>>
        /\ exporter = "xml" =>
              output.lines = <<Line(XML_DECLARATION, ""),
                               Line("<data generator=\"MovieFetchBot\"/>", "")>>

C17_Witness ==
    /\ exporter = "txt"
    /\ exportData = EmptyList
    /\ output = EmptyString

\* C18: for every record and configuration each exporter returns a string
\* and raises no error
C18_ExportReturns == Exported => output.raised = ""

\* a show export with episodes left in the prepared record
SingleShowWithEpisodes ==
    /\ exporter = "csv"
    /\ ~exportData.isList
    /\ ~IsMovie(exportData.items[1])
    /\ exportConfig.include_episodes
    /\ Len(exportData.items[1].episodes) >= 1

\* C19: the CSV export of a single show with E >= 1 episodes is one show
\* header and one show row, the marker '--- EPISODES ---', an episode
\* header and E episode rows in the record's episode order; the export of
\* a movie or of a list has no episode block
C19_EpisodeBlock ==
    /\ SingleShowWithEpisodes =>
          LET eps == exportData.items[1].episodes
              E == Len(eps)
              lines == output.lines
          IN /\ output.raised = ""
             /\ Len(lines) = E + 4
             /\ lines[1] = Header(TVFields)
             /\ lines[2].tag = "row"
             /\ lines[2].cells[2] = exportData.items[1].name
             /\ lines[3] = Write(EPISODES_MARKER)
             /\ lines[4] = Header(EpisodeFields)
             /\ \A i \in 1..E :
                   /\ lines[4 + i].tag = "row"
                   /\ lines[4 + i].cells[3] = ToString(eps[i].season_number)
                   /\ lines[4 + i].cells[4] = ToString(eps[i].episode_number)
                   /\ lines[4 + i].cells[5] = eps[i].name
    /\ (exporter = "csv" /\ (exportData.isList \/ IsMovie(exportData.items[1]))) =>
          \A i \in 1..Len(output.lines) :
              /\ output.lines[i].tag # "write"
              /\ output.lines[i] # Header(EpisodeFields)

C19_Witness ==
    /\ SingleShowWithEpisodes
    /\ Len(exportData.items[1].episodes) >= 2
    /\ Len(output.lines) = Len(exportData.items[1].episodes) + 4

\* the text has a line starting with tag
HasLine(tag) == \E i \in 1..Len(output.lines) : output.lines[i].tag = tag

\* C20: the TXT export of a movie has a 'Budget:' line iff the budget is
\* present and greater than 0 and a 'Revenue:' line iff the revenue is
\* present and greater than 0; the TXT export of a show has neither
C20_BudgetRevenueLines ==
    (exporter = "txt" /\ ~exportData.isList) =>
        LET d == exportData.items[1] IN
        IF IsMovie(d)
        THEN /\ HasLine("Budget: $") <=> (d.budget # NoneInt /\ d.budget > 0)
             /\ HasLine("Revenue: $") <=> (d.revenue # NoneInt /\ d.revenue > 0)
        ELSE ~HasLine("Budget: $") /\ ~HasLine("Revenue: $")

-----------------------------------------------------------------------------
(* The API routes (src/api/main.py) and the dashboard sections (src/app.py) *)
(* Each creates its own TMDBClient; a client call is summarised by its     *)
(* outcome, the connection it opens is the variable client.                *)

\* most titles of a batch
MaxQueries == 2

-----------------------------------------------------------------------------
(* sanitize_query, parse_batch_file (src/utils/validators.py)              *)
(* A line of text is the sequence of its characters.                       *)

\* \w
WordChars == {"a", "b"}

\* \s
Whitespace == {" "}

\* the punctuation the pattern of sanitize_query lets through
Punctuation == {"-", "'", ".", ",", ":", "!", "?"}

RECURSIVE lstrip(_)
lstrip(s) ==
    IF s # <<>> /\ Head(s) \in Whitespace THEN lstrip(Tail(s)) ELSE s

RECURSIVE rstrip(_)
rstrip(s) ==
    IF s # <<>> /\ s[Len(s)] \in Whitespace
    THEN rstrip(SubSeq(s, 1, Len(s) - 1))
    ELSE s

\* str.strip()
strip(s) == rstrip(lstrip(s))

\* "return query[:200]"
MaxQueryLength == 200

\* "return queries[:100]"
MaxBatchItems == 100

sanitize_query(query) ==
    LET Allowed(c) == c \in WordChars \cup Whitespace \cup Punctuation
    IN Take(SelectSeq(strip(query), Allowed), MaxQueryLength)

parse_batch_file(lines) ==
    LET stripped == [i \in 1..Len(lines) |-> strip(lines[i])]
        IsQuery(line) == line # <<>> /\ Head(line) # "#"
        kept == SelectSeq(stripped, IsQuery)
    IN Take([i \in 1..Len(kept) |-> sanitize_query(kept[i])], MaxBatchItems)

\* render_batch_section, input method "Text":
\* [q.strip() for q in batch_text.strip().split('\n') if q.strip()]
TextQueries(lines) ==
    LET stripped == [i \in 1..Len(lines) |-> strip(lines[i])]
        NonEmpty(line) == line # <<>>
    IN SelectSeq(stripped, NonEmpty)

\* the lines users write: a title, a padded title, a title with a character
\* outside the allowed set, a comment, a line of such characters, a blank
RawLines ==
    {<<"a">>, <<" ", "b", " ">>, <<"a", "<", "b">>, <<"#", "a">>, <<"<">>,
     <<" ">>}

\* the queries that can come of them
Titles ==
    {strip(l) : l \in RawLines} \cup {sanitize_query(l) : l \in RawLines}

Batches == UNION {[1..n -> RawLines] : n \in 0..MaxQueries}

-----------------------------------------------------------------------------
(* The account store and the bearer token (src/utils/auth.py)              *)

Usernames == {"alice", "bob", "carol"}

Emails == {"alice@example.org", "bob@example.org", "carol@example.org"}

\* Optional[dict]: no such user
NoUser == [username |-> None, email |-> None]

\* the store a route or section finds: empty, or one account
AccountStores ==
    {<<>>, <<[username |-> "alice", email |-> "alice@example.org"]>>}

\* a token: whether jwt.decode accepts it (signature and expiry), and the
\* "sub" of its payload
Tokens == [verifies : BOOLEAN, sub : {None, "alice", "bob"}]

Headers == [scheme : {"Bearer", "Basic"}, token : Tokens]

get_user_by_username(us, username) ==
    IF \E i \in 1..Len(us) : us[i].username = username
    THEN us[CHOOSE i \in 1..Len(us) :
                /\ us[i].username = username
                /\ \A j \in 1..(i - 1) : us[j].username # username]
    ELSE NoUser

get_user_by_email(us, email) ==
    IF \E i \in 1..Len(us) : us[i].email = email
    THEN us[CHOOSE i \in 1..Len(us) :
                /\ us[i].email = email
                /\ \A j \in 1..(i - 1) : us[j].email # email]
    ELSE NoUser

\* the username of the TokenData, or None
verify_token(token) ==
    IF ~token.verifies THEN None ELSE token.sub

get_current_user(token, us) ==
    IF verify_token(token) = None
    THEN NoUser
    ELSE get_user_by_username(us, verify_token(token))

HTTP401 == [raised |-> "HTTPException", user |-> NoUser]

\* variant: the user the token names is taken as it is, the store is not
\* consulted
RequireUserUnchecked(header, us) ==
    IF header.scheme # "Bearer" \/ verify_token(header.token) = None
    THEN HTTP401
    ELSE [raised |-> "",
          user |-> [username |-> verify_token(header.token), email |-> None]]

require_user(header, us) ==
    IF header.scheme # "Bearer"
    THEN HTTP401
    ELSE IF get_current_user(header.token, us) = NoUser
         THEN HTTP401
         ELSE [raised |-> "", user |-> get_current_user(header.token, us)]

-----------------------------------------------------------------------------

APIRoutes == {"api_search", "api_movie", "api_tv"}

UISections == {"ui_search", "ui_fetch"}

BatchHandlers == {"api_batch", "ui_batch"}

clientRest == <<upstreamPath, call, arg, reqVars, requested, body, tvVars, ret>>

SearchHandlers == {"api_search", "ui_search"}

\* a route or section is entered with its input: the session is or is not
\* authenticated (API batch: require_user has or has not returned a user)
\* and a new TMDBClient is constructed
Enter(h, header, auth, raw, method) ==
    /\ hpc \in {"idle", "ended"}
    /\ handler' = h
    /\ hpc' = "entered"
    /\ authenticated' = auth
    /\ authorization' = header
    /\ rawInput' = raw
    /\ inputMethod' = method
    /\ client' = "none"
    /\ created' = 0
    /\ live' = 0
    /\ pending' = "none"
    /\ outcome' = "none"
    /\ queries' = <<>>
    /\ qidx' = 0
    /\ attempted' = <<>>
    /\ fetched' = <<>>
    /\ failed' = <<>>
    /\ UNCHANGED <<exportVars, authVars, clientRest>>

\* /api/search with a query that is empty once sanitized: HTTPException
\* before the try block
ApiSearchRejected ==
    /\ handler = "api_search"
    /\ hpc = "entered"
    /\ sanitize_query(rawInput[1]) = <<>>
    /\ hpc' = "ended"
    /\ outcome' = "raised"
    /\ UNCHANGED <<connVars, exportVars, authVars, clientRest, inputVars, client, handler, pending,
                   authenticated, batchVars>>

\* client.search / get_movie / get_tv_show of a route or section: the
\* request opens the connection, the call returns or raises
ClientCall ==
    /\ handler \in APIRoutes \cup UISections
    /\ hpc = "entered"
    /\ handler = "api_search" => sanitize_query(rawInput[1]) # <<>>
    /\ \E r \in {"ok", "raise"} : pending' = r
    /\ attempted' = IF handler \in SearchHandlers
                    THEN <<sanitize_query(rawInput[1])>>
                    ELSE attempted
    /\ Acquire
    /\ hpc' = "called"
    /\ UNCHANGED <<exportVars, authVars, clientRest, inputVars, handler,
                   outcome, authenticated, queries, qidx, fetched, failed>>

\* API route: finally: await client.close()
ApiFinally ==
    /\ handler \in APIRoutes
    /\ hpc = "called"
    /\ Release
    /\ outcome' = IF pending = "ok" THEN "returned" ELSE "raised"
    /\ hpc' = "ended"
    /\ UNCHANGED <<exportVars, authVars, clientRest, inputVars, handler, pending, authenticated,
                   batchVars>>

\* dashboard: the call returned, run_async(client.close()) is next
UiClose ==
    /\ handler \in UISections
    /\ hpc = "called"
    /\ pending = "ok"
    /\ Release
    /\ outcome' = "returned"
    /\ hpc' = "ended"
    /\ UNCHANGED <<exportVars, authVars, clientRest, inputVars, handler, pending, authenticated,
                   batchVars>>

\* dashboard: the call raised, the exception leaves the section
UiRaise ==
    /\ handler \in UISections
    /\ hpc = "called"
    /\ pending = "raise"
    /\ outcome' = "raised"
    /\ hpc' = "ended"
    /\ UNCHANGED <<connVars, exportVars, authVars, clientRest, inputVars, client, handler, pending,
                   authenticated, batchVars>>

\* batch without a logged-in user: require_user raises 401 (API), the
\* section returns (dashboard)
BatchDenied ==
    /\ handler \in BatchHandlers
    /\ hpc = "entered"
    /\ ~authenticated
    /\ outcome' = IF handler = "api_batch" THEN "raised" ELSE "returned"
    /\ hpc' = "ended"
    /\ UNCHANGED <<connVars, exportVars, authVars, clientRest, inputVars, client, handler, pending,
                   authenticated, batchVars>>

\* batch of a logged-in user: no titles ends it (HTTPException 400 in the
\* API, disabled button in the dashboard), else the loop starts
BatchStart ==
    /\ handler \in BatchHandlers
    /\ hpc = "entered"
    /\ authenticated
    /\ queries' = IF handler = "ui_batch" /\ inputMethod = "Text"
                  THEN TextQueries(rawInput)
                  ELSE parse_batch_file(rawInput)
    /\ IF queries' = <<>>
       THEN /\ hpc' = "ended"
            /\ outcome' = IF handler = "api_batch" THEN "raised" ELSE "returned"
            /\ qidx' = qidx
       ELSE /\ hpc' = "loop"
            /\ outcome' = outcome
            /\ qidx' = 1
    /\ UNCHANGED <<connVars, exportVars, authVars, clientRest, inputVars,
                   client, handler, pending, authenticated, attempted,
                   fetched, failed>>

\* what can happen to one title
ItemOutcomes(h) ==
    {"search_raises", "no_results", "fetch_raises", "fetched"}
    \cup (IF h = "api_batch" THEN {"export_raises"} ELSE {"history_raises"})

\* one turn of the dashboard loop: results.append and add_to_history sit in
\* the try block, except Exception appends to failed
UiBatchItem ==
    /\ handler = "ui_batch"
    /\ hpc = "loop"
    /\ qidx <= Len(queries)
    /\ \E o \in ItemOutcomes("ui_batch") :
          /\ pending' = o
          /\ fetched' = IF o \in {"fetched", "history_raises"}
                        THEN Append(fetched, queries[qidx]) ELSE fetched
          /\ failed' = IF o # "fetched"
                       THEN Append(failed, queries[qidx]) ELSE failed
    /\ attempted' = Append(attempted, queries[qidx])
    /\ Acquire
    /\ qidx' = qidx + 1
    /\ UNCHANGED <<exportVars, authVars, clientRest, inputVars, handler, hpc, outcome,
                   authenticated, queries>>

\* one turn of the API loop: an empty result page or any exception
\* continues with the next title, else the export is written to the ZIP
ApiBatchItem ==
    /\ handler = "api_batch"
    /\ hpc = "loop"
    /\ qidx <= Len(queries)
    /\ \E o \in ItemOutcomes("api_batch") :
          /\ pending' = o
          /\ fetched' = IF o = "fetched"
                        THEN Append(fetched, queries[qidx]) ELSE fetched
          /\ failed' = IF o # "fetched"
                       THEN Append(failed, queries[qidx]) ELSE failed
    /\ attempted' = Append(attempted, queries[qidx])
    /\ Acquire
    /\ qidx' = qidx + 1
    /\ UNCHANGED <<exportVars, authVars, clientRest, inputVars, handler, hpc, outcome,
                   authenticated, queries>>

\* after the loop: client.close()
BatchEnd ==
    /\ handler \in BatchHandlers
    /\ hpc = "loop"
    /\ qidx > Len(queries)
    /\ Release
    /\ outcome' = "returned"
    /\ hpc' = "ended"
    /\ UNCHANGED <<exportVars, authVars, clientRest, inputVars, handler, pending, authenticated,
                   batchVars>>

InitApp ==
    /\ upstreamPath = None
    /\ client = "none"
    /\ created = 0
    /\ live = 0
    /\ call = "none"
    /\ arg = None
    /\ pc = "idle"
    /\ attempt = 0
    /\ sent = 0
    /\ trace = <<>>
    /\ waits = <<>>
    /\ error = NoError
    /\ endpoint = ""
    /\ requested = <<>>
    /\ body = NoBody
    /\ seasons = <<>>
    /\ idx = 0
    /\ episodes = <<>>
    /\ ret = NoRet
    /\ exporter = "none"
    /\ exportData = NoData
    /\ exportConfig = DefaultConfig
    /\ prepared = <<>>
    /\ output = NoOutput
    /\ second = "none"
    /\ previous = NoOutput
    /\ users \in AccountStores
    /\ signup = NoSignup
    /\ AppIdle

NextApp ==
    \/ \E h \in (APIRoutes \cup UISections) \ SearchHandlers, auth \in BOOLEAN :
          Enter(h, NoHeader, auth, <<>>, "none")
    \/ \E h \in SearchHandlers, auth \in BOOLEAN, q \in RawLines :
          Enter(h, NoHeader, auth, <<q>>, "none")
    \/ \E auth \in BOOLEAN, raw \in Batches, method \in {"Text", "File"} :
          Enter("ui_batch", NoHeader, auth, raw, method)
    \/ \E header \in Headers, raw \in Batches :
          Enter("api_batch", header, require_user(header, users).raised = "",
                raw, "File")
    \/ ApiSearchRejected
    \/ ClientCall
    \/ ApiFinally
    \/ UiClose
    \/ UiRaise
    \/ BatchDenied
    \/ BatchStart
    \/ UiBatchItem
    \/ ApiBatchItem
    \/ BatchEnd

SpecApp == InitApp /\ [][NextApp]_vars

-----------------------------------------------------------------------------
(* create_user (src/utils/auth.py), one call after another *)

\* variant: only the username is looked up
CreateUserAnyEmail(us, username, email) ==
    IF get_user_by_username(us, username) # NoUser
    THEN [raised |-> "ValueError", users |-> us]
    ELSE [raised |-> "",
          users |-> Append(us, [username |-> username, email |-> email])]

\* how the call ends, and the list save_users has written (the list
\* load_users read when nothing is written)
create_user(us, username, email) ==
    IF get_user_by_username(us, username) # NoUser
    THEN [raised |-> "ValueError", users |-> us]
    ELSE IF get_user_by_email(us, email) # NoUser
         THEN [raised |-> "ValueError", users |-> us]
         ELSE [raised |-> "",
               users |-> Append(us, [username |-> username, email |-> email])]

CreateUser ==
    \E username \in Usernames, email \in Emails :
        /\ users' = create_user(users, username, email).users
        /\ signup' = [username |-> username, email |-> email,
                      raised |-> create_user(users, username, email).raised]
        /\ UNCHANGED <<appVars, clientVars, exportVars>>

\* users.json does not exist yet: ensure_data_dir writes "[]"
InitAuth == Init

NextAuth == CreateUser

SpecAuth == InitAuth /\ [][NextAuth]_vars

-----------------------------------------------------------------------------
(* Properties of the routes and sections *)

\* C12: when an operation that created a client ends, on any path, the
\* client's connection is not open
C12_ClientReleased == hpc = "ended" => client # "open"

\* occurrences of t in s
Count(s, t) == Cardinality({i \in 1..Len(s) : s[i] = t})

\* C13: the titles of a batch are tried in input order, a failure of one
\* title never stops the batch, and each tried title is counted exactly
\* once, as fetched or as failed/skipped
C13_EachTitleOnce ==
    handler \in BatchHandlers =>
        /\ Len(attempted) <= Len(queries)
        /\ attempted = SubSeq(queries, 1, Len(attempted))
        /\ (hpc = "ended" /\ authenticated) => attempted = queries
        /\ \A t \in Titles :
              Count(fetched, t) + Count(failed, t) = Count(attempted, t)

-----------------------------------------------------------------------------
(* Further properties of the request routine and of get_tv_show *)

\* C28: one call of _request sends at most 3 requests whatever the mix of
\* 429 responses and network failures; a network failure on the third
\* attempt is raised at once, without a wait or a retry; the wait before a
\* retry depends on the attempt index alone (2^(k-1) after a 429 on attempt
\* k, 1 after a network failure on attempt k < 3)
C28_SharedAttemptCounter ==
    /\ sent <= 3
    /\ Len(trace) <= 3
    /\ (Len(trace) = 3 /\ trace[3] = RequestError) =>
          /\ pc = "raised"
          /\ error.type = "RequestError"
          /\ waits[3] = 0
          /\ sent = 3
    /\ \A k \in 1..Len(trace) :
          /\ trace[k] = 429 => waits[k] = 2 ^ (k - 1)
          /\ (trace[k] = RequestError /\ k < 3) => waits[k] = 1

C28_Witness ==
    /\ pc = "raised"
    /\ trace = <<429, 429, RequestError>>
    /\ waits = <<1, 2, 0>>
    /\ error.type = "RequestError"

\* a call of _request has started and has neither returned nor raised
InRequest == pc \in {"send", "flight", "ok", "raised"}

\* a request is started only when no request of the client is unfinished
OneRequestAtATime ==
    [][requested' # requested /\ requested' # <<>> =>
          /\ ~InRequest
          /\ trace = <<>>
          /\ Len(requested') = Len(requested) + 1]_vars

\* the season numbers of the season requests are ascending
SeasonsAscending ==
    \A i, j \in 2..Len(requested) : \A a, b \in 0..(MaxSeasonNo + 1) :
        (i < j /\ requested[i] = SeasonEndpoint(a)
               /\ requested[j] = SeasonEndpoint(b)) => a <= b

\* the season requests so far are the first ones the summaries call for
SeasonsInSummaryOrder ==
    (call = "get_tv_show" /\ idx >= 1) =>
        LET all == <<TVEndpoint>> \o SeasonRequests(seasons) IN
        /\ Len(requested) <= Len(all)
        /\ requested = SubSeq(all, 1, Len(requested))

C25_FailurePropagates ==
    /\ [][(call = "get_tv_show" /\ pc = "raised") =>
             ret' = [kind |-> "raise", error |-> error]]_vars
    /\ [][(call = "get_tv_show" /\ ret.kind = "raise") =>
             \/ ret' = ret /\ requested' = requested /\ episodes' = episodes
             \/ call' = "none"]_vars

C25_Witness ==
    /\ call = "get_tv_show"
    /\ ret.kind = "raise"
    /\ arg = TRUE
    /\ idx = 1
    /\ Len(requested) = 2
    /\ Len(seasons) >= 2
    /\ seasons[2].season_number > 0

-----------------------------------------------------------------------------
(* Properties of the connection handle *)

\* C29: a client instance has at most one open connection at a time; a
\* connection is created only when none exists or the previous one is
\* closed; close on a never-opened or closed client changes nothing; a
\* request issued after close opens a fresh connection and is sent
C29_OneConnection ==
    /\ [](live <= 1 /\ (live = 1 <=> client = "open"))
    /\ [][(created' # created \/ live' > live) =>
             client \in {"none", "closed"}]_vars
    /\ [][(client # "open" /\ client' # client) =>
             (client' = "open" /\ requested' # requested)]_vars
    /\ [][(client = "closed" /\ requested' # requested /\ requested' # <<>>) =>
             (client' = "open" /\ live' = 1 /\ pc' = "send" /\ ret' = ret)]_vars

C29_Witness ==
    /\ created = 2
    /\ live = 1
    /\ client = "open"
    /\ pc = "flight"

-----------------------------------------------------------------------------
(* Properties of repeated exports *)

-----------------------------------------------------------------------------
(* json.loads, on the lines json.dumps writes *)

\* every dict a record is made of: the record and its nested entries
DictsOf(d) ==
    {d} \cup UNION {{d[k][i] : i \in 1..Len(d[k])} : k \in ListKeys \cap DOMAIN d}

\* the numbers and the strings the catalog records are made of
JsonInts ==
    UNION {UNION {{e[k] : k \in IntKeys \cap DOMAIN e} : e \in DictsOf(d)} :
              d \in Movies \cup TVShows} \ {NoneInt}

JsonStrings ==
    UNION {UNION {{e[k] : k \in DOMAIN e \ (IntKeys \cup ListKeys)} :
                     e \in DictsOf(d)} :
              d \in Movies \cup TVShows} \ {None}

\* a text json.loads does not accept
Undecodable == "JSONDecodeError"

\* json.loads of a scalar: null, a number or a quoted string (the None of an
\* integer field is written NoneInt in the records)
JsonLoadsScalar(key, text) ==
    IF text = "null"
    THEN IF key \in IntKeys THEN NoneInt ELSE None
    ELSE IF \E n \in JsonInts : ToString(n) = text
         THEN CHOOSE n \in JsonInts : ToString(n) = text
         ELSE IF \E v \in JsonStrings : "\"" \o v \o "\"" = text
              THEN CHOOSE v \in JsonStrings : "\"" \o v \o "\"" = text
              ELSE Undecodable

EmptyDict == [k \in {} |-> None]

RECURSIVE JsonLoadsDict(_, _, _)
RECURSIVE JsonLoadsList(_, _, _)

\* the members of an object from line i on, up to its closing brace
JsonLoadsDict(lines, i, acc) ==
    IF i > Len(lines)
    THEN [value |-> Undecodable, next |-> i]
    ELSE LET l == lines[i] IN
         IF l.tag = "}"
         THEN [value |-> acc, next |-> i + 1]
         ELSE IF l.cells[1] = "[]"
         THEN JsonLoadsDict(lines, i + 1, acc @@ (l.tag :> <<>>))
         ELSE IF l.cells[1] = "["
         THEN LET r == JsonLoadsList(lines, i + 1, <<>>)
              IN JsonLoadsDict(lines, r.next, acc @@ (l.tag :> r.value))
         ELSE JsonLoadsDict(lines, i + 1,
                  acc @@ (l.tag :> JsonLoadsScalar(l.tag, l.cells[1])))

\* the elements of an array from line i on, up to its closing bracket
JsonLoadsList(lines, i, acc) ==
    IF i > Len(lines)
    THEN [value |-> Undecodable, next |-> i]
    ELSE IF lines[i].tag = "]"
    THEN [value |-> acc, next |-> i + 1]
    ELSE LET r == JsonLoadsDict(lines, i + 1, EmptyDict)
         IN JsonLoadsList(lines, r.next, Append(acc, r.value))

json_loads(lines) ==
    IF lines = <<Line("[]", "")>>
    THEN <<>>
    ELSE IF lines[1].tag = "["
         THEN JsonLoadsList(lines, 2, <<>>).value
         ELSE JsonLoadsDict(lines, 2, EmptyDict).value

\* C22: decoding the JSON export of a record gives the prepared record,
\* decoding the export of a list gives the list of the prepared records,
\* whatever the configuration
C22_JsonRoundTrip ==
    (Exported /\ exporter = "json") =>
        /\ output.raised = ""
        /\ json_loads(output.lines) =
              (IF exportData.isList THEN prepared ELSE prepared[1])

C22_Witness ==
    /\ exporter = "json"
    /\ ~exportData.isList
    /\ ~exportConfig.include_images
    /\ exportConfig.include_cast
    /\ exportConfig.max_cast = 1
    /\ exportConfig.include_episodes
    /\ "episodes" \in DOMAIN exportData.items[1]
    /\ Len(exportData.items[1].episodes) > 1
    /\ Len(exportData.items[1].cast) > 1
    /\ exportData.items[1].overview = None
    /\ prepared[1] # exportData.items[1]
    /\ json_loads(output.lines) = prepared[1]

-----------------------------------------------------------------------------
(* Properties of the batch gate and of the queries *)

\* a batch handler has started its work: titles were read, the loop runs or
\* a search was made
BatchAtWork ==
    /\ handler \in BatchHandlers
    /\ \/ queries # <<>>
       \/ attempted # <<>>
       \/ hpc = "loop"
       \/ client # "none"

\* C23: no batch search or fetch is made for a caller who is not an
\* authenticated user: the API batch route works only for a Bearer token
\* that verifies and names a user of the account store, the dashboard batch
\* section only while the session is authenticated
C23_BatchNeedsUser ==
    BatchAtWork =>
        IF handler = "api_batch"
        THEN /\ authorization.scheme = "Bearer"
             /\ authorization.token.verifies
             /\ \E i \in 1..Len(users) :
                   users[i].username = authorization.token.sub
        ELSE authenticated

C23_Witness ==
    /\ handler = "api_batch"
    /\ hpc = "loop"
    /\ attempted # <<>>
    /\ client = "open"
    /\ authorization.scheme = "Bearer"
    /\ authorization.token.verifies
    /\ authorization.token.sub = "alice"
    /\ users # <<>>

\* C27: every query passed to client.search is sanitize_query of a line of
\* the input, for single searches and for the titles of a batch
C27_QueriesSanitized ==
    \A i \in 1..Len(attempted) :
        \E j \in 1..Len(rawInput) : attempted[i] = sanitize_query(rawInput[j])

-----------------------------------------------------------------------------
(* Properties of the account store *)

Taken(username, email) ==
    \E i \in 1..Len(users) :
        users[i].username = username \/ users[i].email = email

\* C30: after any sequence of create_user calls no two users of the store
\* share a username or an email; a call rejected as a duplicate raises and
\* leaves the store as it was; a successful call adds exactly one user
C30_UniqueUsers ==
    /\ [](\A i, j \in 1..Len(users) :
             i # j => /\ users[i].username # users[j].username
                      /\ users[i].email # users[j].email)
    /\ [][Taken(signup'.username, signup'.email) =>
             signup'.raised = "ValueError"]_vars
    /\ [][signup'.raised = "ValueError" => users' = users]_vars
    /\ [][signup'.raised = "" =>
             users' = Append(users, [username |-> signup'.username,
                                     email |-> signup'.email])]_vars

C30_Witness ==
    /\ Len(users) = 2
    /\ signup.raised = "ValueError"
    /\ signup.email = users[1].email
    /\ \A i \in 1..Len(users) : users[i].username # signup.username

====
